---- MODULE Spec2Model ----
(***************************************************************************)
(* Model of slabcache: Cache<K, V> (src/src/cache.rs) and Statistics       *)
(* (src/src/statistics.rs).  The cache owns a slab of values, a map from   *)
(* slab index to metadata (key_meta), a map from user key to slab index    *)
(* (key_map), a deque of slab indices (usage) and a map from slab index to *)
(* position in the deque (usage_map).                                      *)
(*                                                                         *)
(* Slab indices are 0-based as in the slab crate; the deque positions are  *)
(* 0-based as in VecDeque.  An Option<T> is modelled as a sequence of      *)
(* length at most one: None == << >>, Some(x) == <<x>>.                    *)
(***************************************************************************)
EXTENDS Integers, Sequences, FiniteSets, TLC

\* ---- bounds of the model -------------------------------------------------
MaxCapacity == 2
NumKeys == 3
NumValues == 2
MaxTime == 1
MaxGets == 3

Capacities == 0..MaxCapacity
Keys == 1..NumKeys
Values == 1..NumValues
Timestamps == 1..MaxTime

VARIABLES
    slab,        \* Slab<V>: [entries, next]
    key_meta,    \* HashMap<usize, Metadata<K>>
    key_map,     \* HashMap<K, usize>
    usage,       \* VecDeque<usize>
    usage_map,   \* HashMap<usize, usize>
    capacity,    \* usize
    statistics,  \* Statistics: [hits, misses, current_size]
    panicked,    \* TRUE once a call has panicked (unwrap on None, invalid slab key)
    op,          \* the last call: [name, key, value, index, evicted, present, keys]
    ret,         \* what the last call returned
    recent       \* live slab indices ordered by last access (insert or successful get)

vars == <<slab, key_meta, key_map, usage, usage_map, capacity, statistics,
          panicked, op, ret, recent>>

\* ---- Option -------------------------------------------------------------
None == << >>
Some(x) == <<x>>

\* ---- HashMap ------------------------------------------------------------
EmptyMap == [x \in {} |-> 0]
MapInsert(m, k, v) == [x \in (DOMAIN m) \cup {k} |-> IF x = k THEN v ELSE m[x]]
MapRemove(m, k) == [x \in (DOMAIN m) \ {k} |-> m[x]]
MapGet(m, k) == IF k \in DOMAIN m THEN Some(m[k]) ELSE None
MapValues(m) == {m[x] : x \in DOMAIN m}

\* ---- Vec / VecDeque -----------------------------------------------------
SeqToSet(s) == {s[i] : i \in 1..Len(s)}
\* VecDeque::remove(position): the sequence without the element at the
\* 0-based position.
DequeRemove(s, position) ==
    [i \in 1..(Len(s) - 1) |-> IF i <= position THEN s[i] ELSE s[i + 1]]
Reverse(s) == [i \in 1..Len(s) |-> s[Len(s) + 1 - i]]

\* ---- Slab (slab crate) --------------------------------------------------
\* An entry is Occupied(val) or Vacant(next): the vacant entries form a
\* free list that starts at slab.next; slab.next = Len(entries) when the
\* free list is empty.
Occupied(v) == [occupied |-> TRUE, val |-> v, next |-> 0]
Vacant(n) == [occupied |-> FALSE, val |-> 0, next |-> n]
SlabNew == [entries |-> << >>, next |-> 0]
SlabContains(s, key) == key \in 0..(Len(s.entries) - 1) /\ s.entries[key + 1].occupied
SlabKeys(s) == {h \in 0..(Len(s.entries) - 1) : s.entries[h + 1].occupied}
SlabLen(s) == Cardinality(SlabKeys(s))
SlabGet(s, key) == IF SlabContains(s, key) THEN Some(s.entries[key + 1].val) ELSE None
SlabInsert(s, v) ==
    IF s.next = Len(s.entries)
    THEN [entries |-> Append(s.entries, Occupied(v)), next |-> s.next + 1]
    ELSE [entries |-> [s.entries EXCEPT ![s.next + 1] = Occupied(v)],
          next |-> s.entries[s.next + 1].next]
SlabRemove(s, key) ==
    [entries |-> [s.entries EXCEPT ![key + 1] = Vacant(s.next)], next |-> key]
SlabClear == [entries |-> << >>, next |-> 0]

\* ---- Statistics ---------------------------------------------------------
StatisticsNew == [hits |-> 0, misses |-> 0, current_size |-> 0]
hit(st) == [st EXCEPT !.hits = @ + 1]
\* miss that also resets the reported size
miss_ResetsSize(st) == [st EXCEPT !.misses = @ + 1, !.current_size = 0]
\* miss that counts a hit
miss_CountsHit(st) == [st EXCEPT !.hits = @ + 1]
miss(st) == [st EXCEPT !.misses = @ + 1]
\* update_size that ignores the size
update_size_Ignored(st, size) == st
update_size(st, size) == [st EXCEPT !.current_size = size]

\* ---- Metadata -----------------------------------------------------------
NewMetadata(key) == [last_accessed |-> 0, frequency |-> 0, hits |-> 0, user_key |-> key]

\* ---- recency by last access --------------------------------------------
Without(s, h) == SelectSeq(s, LAMBDA x : x # h)
Touch(s, h) == Append(Without(s, h), h)

\* Vec::sort_by_key(f): a stable sort, smallest key first; f maps each
\* element to its sort key.
RECURSIVE InsertSorted(_, _, _)
InsertSorted(sorted, x, f) ==
    IF sorted = << >> THEN <<x>>
    ELSE IF f[sorted[Len(sorted)]] <= f[x] THEN Append(sorted, x)
    ELSE Append(InsertSorted(SubSeq(sorted, 1, Len(sorted) - 1), x, f), sorted[Len(sorted)])
RECURSIVE SortByKey(_, _)
SortByKey(s, f) ==
    IF s = << >> THEN << >>
    ELSE InsertSorted(SortByKey(SubSeq(s, 1, Len(s) - 1), f), s[Len(s)], f)

\* The orders in which HashMap::keys() may yield the keys of a map.
KeyOrders(m) ==
    {s \in [1..Cardinality(DOMAIN m) -> DOMAIN m] : SeqToSet(s) = DOMAIN m}

Call(name, key, value, index, evicted, present, keys, order) ==
    [name |-> name, key |-> key, value |-> value, index |-> index,
     evicted |-> evicted, present |-> present, keys |-> keys, order |-> order]
NoCall == Call("new", 0, 0, -1, None, FALSE, << >>, "")

\* Cache::new(capacity)
Init ==
    /\ capacity \in Capacities
    /\ slab = SlabNew
    /\ key_meta = EmptyMap
    /\ key_map = EmptyMap
    /\ usage = << >>
    /\ usage_map = EmptyMap
    /\ statistics = StatisticsNew
    /\ panicked = FALSE
    /\ op = NoCall
    /\ ret = None
    /\ recent = << >>

\* The fields of the cache that insert and get rewrite, as one record.
Self ==
    [slab |-> slab, key_meta |-> key_meta, key_map |-> key_map, usage |-> usage,
     usage_map |-> usage_map, statistics |-> statistics]

\* Register that also records the position of the new index in usage_map
Register_RecordsPosition(c, key, value) ==
    LET index == c.slab.next
    IN  [c EXCEPT !.slab = SlabInsert(@, value),
                  !.key_meta = MapInsert(@, index, NewMetadata(key)),
                  !.key_map = MapInsert(@, key, index),
                  !.usage = Append(@, index),
                  !.usage_map = MapInsert(@, index, Len(c.usage))]

\* Cache::insert, the allocation and registration of the new entry
Register(c, key, value) ==
    LET index == c.slab.next
    IN  [c EXCEPT !.slab = SlabInsert(@, value),
                  !.key_meta = MapInsert(@, index, NewMetadata(key)),
                  !.key_map = MapInsert(@, key, index),
                  !.usage = Append(@, index)]

\* OverCapacity with the comparison off by one
OverCapacity_OffByOne(len, cap) == len > cap + 1

\* Cache::insert, the test that triggers an eviction
OverCapacity(len, cap) == len > cap

\* Evict that leaves the value in the slab
Evict_KeepsSlot(c, key) ==
    LET metadata == c.key_meta[key]
    IN  [c EXCEPT !.usage_map = MapRemove(@, key),
                  !.key_map = MapRemove(@, metadata.user_key),
                  !.key_meta = MapRemove(@, key)]

\* Evict that leaves the key of the evicted entry in key_map
Evict_KeepsKeyMap(c, key) ==
    [c EXCEPT !.slab = SlabRemove(@, key),
              !.usage_map = MapRemove(@, key),
              !.key_meta = MapRemove(@, key)]

\* Evict that removes the key of the evicted entry from key_map only when
\* key_map maps it to the evicted index
Evict_OwnMappingOnly(c, key) ==
    LET metadata == c.key_meta[key]
        mapped == metadata.user_key \in DOMAIN c.key_map
                  /\ c.key_map[metadata.user_key] = key
    IN  [c EXCEPT !.slab = SlabRemove(@, key),
                  !.usage_map = MapRemove(@, key),
                  !.key_map = IF mapped THEN MapRemove(@, metadata.user_key) ELSE @,
                  !.key_meta = MapRemove(@, key)]

\* Cache::insert, the removal of the entry whose index was popped from usage
Evict(c, key) ==
    LET metadata == c.key_meta[key]
    IN  [c EXCEPT !.slab = SlabRemove(@, key),
                  !.usage_map = MapRemove(@, key),
                  !.key_map = MapRemove(@, metadata.user_key),
                  !.key_meta = MapRemove(@, key)]

\* Cache::insert, from registration to the end of the eviction; evict and
\* panics tell whether the call evicts and whether it panics in
\* key_meta.get(&key).unwrap() or slab.remove(key), which it does when the
\* popped index has no metadata or no occupied slot
Inserted(c, key, value, cap) ==
    LET c1 == Register(c, key, value)
        evict == OverCapacity(Len(c1.usage), cap)
        front == Head(c1.usage)
        popped == [c1 EXCEPT !.usage = Tail(@)]
        panics == evict /\ (front \notin DOMAIN c1.key_meta \/ ~SlabContains(c1.slab, front))
    IN  [cache |-> IF ~evict THEN c1 ELSE IF panics THEN popped ELSE Evict(popped, front),
         evict |-> evict, panics |-> panics, front |-> front]

\* Cache::insert(key, value)
insert(key, value) ==
    \E r \in {Inserted(Self, key, value, capacity)} :
        /\ ~panicked
        /\ panicked' = r.panics
        /\ slab' = r.cache.slab
        /\ key_meta' = r.cache.key_meta
        /\ key_map' = r.cache.key_map
        /\ usage' = r.cache.usage
        /\ usage_map' = r.cache.usage_map
        /\ statistics' = IF r.panics THEN statistics
                          ELSE update_size(statistics, SlabLen(r.cache.slab))
        /\ recent' = IF r.evict THEN Without(Append(recent, slab.next), r.front)
                                ELSE Append(recent, slab.next)
        /\ ret' = IF r.panics THEN None ELSE key
        /\ op' = Call("insert", key, value, slab.next,
                       IF r.evict /\ ~r.panics THEN Some(r.front) ELSE None,
                       key \in DOMAIN key_map, << >>, "")
        /\ UNCHANGED capacity

Insert == \E key \in Keys, value \in Values : insert(key, value)

\* Accessed that does not count the hit of the entry
Accessed_SkipsHits(meta, now) ==
    [meta EXCEPT !.last_accessed = now, !.frequency = @ + 1]

\* Cache::get, the update of the metadata of the entry that was hit
Accessed(meta, now) ==
    [meta EXCEPT !.last_accessed = now, !.frequency = @ + 1, !.hits = @ + 1]

\* Cache::get, the move of the index recorded at position to the back of
\* usage, and the new position of usize_key
MoveToBack(c, usize_key, position) ==
    LET k == c.usage[position + 1]
        usage1 == Append(DequeRemove(c.usage, position), k)
    IN  [c EXCEPT !.usage = usage1,
                  !.usage_map = MapInsert(@, usize_key, Len(usage1) - 1)]

\* What Cache::get(key) returns in the current state
GetResult(key) ==
    IF key \notin DOMAIN key_map THEN None
    ELSE LET usize_key == key_map[key]
         IN  \* usage.remove(position)? returns None from get
             IF usize_key \in DOMAIN usage_map /\ ~(usage_map[usize_key] < Len(usage))
             THEN None
             ELSE SlabGet(slab, usize_key)

\* Cache::get, the fields of the cache after the call
Got(c, key, now) ==
    IF key \notin DOMAIN c.key_map
    THEN [c EXCEPT !.statistics = miss(@)]
    ELSE LET usize_key == c.key_map[key]
             c1 == IF usize_key \in DOMAIN c.key_meta
                   THEN [c EXCEPT !.key_meta[usize_key] = Accessed(@, now),
                                  !.statistics = hit(@)]
                   ELSE c
         IN  IF usize_key \in DOMAIN c.usage_map /\ c.usage_map[usize_key] < Len(c.usage)
             THEN MoveToBack(c1, usize_key, c.usage_map[usize_key])
             ELSE c1

\* Cache::get(key); now is the value of Utc::now().timestamp_micros()
get(key, now) ==
    \E c \in {Got(Self, key, now)} :
        /\ ~panicked
        /\ statistics.hits + statistics.misses < MaxGets
        /\ key_meta' = c.key_meta
        /\ statistics' = c.statistics
        /\ usage' = c.usage
        /\ usage_map' = c.usage_map
        /\ ret' = GetResult(key)
        /\ recent' = IF key \in DOMAIN key_map /\ key_map[key] \in SeqToSet(recent)
                      THEN Touch(recent, key_map[key]) ELSE recent
        /\ op' = Call("get", key, 0, IF key \in DOMAIN key_map THEN key_map[key] ELSE -1,
                       None, key \in DOMAIN key_map, << >>, "")
        /\ UNCHANGED <<slab, key_map, capacity, panicked>>

Get == \E key \in Keys, now \in Timestamps : get(key, now)

\* GetLruResult that reads the back of usage
GetLruResult_Back == IF usage = << >> THEN None ELSE SlabGet(slab, usage[Len(usage)])

\* What Cache::get_lru() returns in the current state
GetLruResult == IF usage = << >> THEN None ELSE SlabGet(slab, Head(usage))

\* Cache::get_lru()
get_lru ==
    /\ ~panicked
    /\ ret' = GetLruResult
    /\ op' = Call("get_lru", 0, 0, IF usage = << >> THEN -1 ELSE Head(usage),
                   None, FALSE, << >>, "")
    /\ UNCHANGED <<slab, key_meta, key_map, usage, usage_map, capacity, statistics,
                   panicked, recent>>

\* Flushed that does not clear key_map
Flushed_KeepsKeyMap(c) ==
    [c EXCEPT !.slab = SlabClear,
              !.key_meta = EmptyMap,
              !.usage = << >>,
              !.usage_map = EmptyMap]

\* Cache::flush, the fields of the cache after the call
Flushed(c) ==
    [c EXCEPT !.slab = SlabClear,
              !.key_meta = EmptyMap,
              !.usage = << >>,
              !.usage_map = EmptyMap,
              !.key_map = EmptyMap]

\* Cache::flush()
flush ==
    \E c \in {Flushed(Self)} :
        /\ ~panicked
        /\ slab' = c.slab
        /\ key_meta' = c.key_meta
        /\ usage' = c.usage
        /\ usage_map' = c.usage_map
        /\ key_map' = c.key_map
        /\ statistics' = c.statistics
        /\ recent' = << >>
        /\ ret' = None
        /\ op' = Call("flush", 0, 0, -1, None, FALSE, << >>, "")
        /\ UNCHANGED <<capacity, panicked>>

Ascending == "Ascending"
Descending == "Descending"
SortOrder == {Ascending, Descending}

\* CacheIterFrequency::next, called until it returns None: the items for the
\* keys up to the first one without a slab value or without metadata.
RECURSIVE IterItems(_)
IterItems(keys) ==
    IF keys = << >> THEN << >>
    ELSE LET key == Head(keys)
         IN  IF SlabGet(slab, key) = None \/ MapGet(key_meta, key) = None
             THEN << >>
             ELSE <<<<key_meta[key].user_key, slab.entries[key + 1].val, key_meta[key]>>>>
                  \o IterItems(Tail(keys))

\* FrequencyKeys without the sort
FrequencyKeys_Unsorted(hash_order, order) ==
    IF order = Descending THEN Reverse(hash_order) ELSE hash_order

\* FrequencyKeys without the reversal for SortOrder::Descending
FrequencyKeys_NeverReverses(hash_order, order) ==
    LET frequency == [k \in DOMAIN key_meta |-> key_meta[k].frequency]
    IN  SortByKey(hash_order, frequency)

\* The keys field of the iterator Cache::iter_frequency(order) builds from
\* the keys of key_meta in the order hash_order.
FrequencyKeys(hash_order, order) ==
    LET frequency == [k \in DOMAIN key_meta |-> key_meta[k].frequency]
        sorted == SortByKey(hash_order, frequency)
    IN  IF order = Descending THEN Reverse(sorted) ELSE sorted

\* Cache::iter_frequency(order), collected
iter_frequency(order) ==
    /\ ~panicked
    /\ \E hash_order \in KeyOrders(key_meta) :
          LET keys == FrequencyKeys(hash_order, order)
          IN  /\ ret' = IterItems(keys)
              /\ op' = Call("iter_frequency", 0, 0, -1, None, FALSE, keys, order)
    /\ UNCHANGED <<slab, key_meta, key_map, usage, usage_map, capacity, statistics,
                   panicked, recent>>

IterFrequency == \E order \in SortOrder : iter_frequency(order)

Next == Insert \/ Get \/ get_lru \/ flush \/ IterFrequency

\* ---- properties --------------------------------------------------------
Last(s) == s[Len(s)]
LiveSlots == SlabKeys(slab)

\* C1: for a cache of capacity >= 1 the number of occupied slots of the slab
\* is at most the capacity after every call.
C1_CapacityBound == capacity >= 1 => SlabLen(slab) <= capacity
\* an insert into a full cache has evicted and left the cache full
C1_Witness ==
    /\ capacity >= 1
    /\ op.name = "insert"
    /\ op.evicted # None
    /\ SlabLen(slab) = capacity

\* C2: a get on a present key moves the key's slab index to the back of
\* usage, and an eviction removes the entry whose last access (insert or
\* successful get) is the oldest.
C2_RecencyOnAccess ==
    [][/\ (op'.name = "get" /\ op'.present) =>
             (usage' # << >> /\ Last(usage') = op'.index)
       /\ (op'.name = "insert" /\ capacity >= 1 /\ op'.evicted # None) =>
             op'.evicted = Some(Head(recent))]_vars

\* C3: get_lru returns the value of the live entry whose last access (insert
\* or successful get) is the oldest.
C3_GetLruLeastRecentlyUsed ==
    (op.name = "get_lru" /\ recent # << >>) => ret = SlabGet(slab, Head(recent))

\* C4: an insert into a full cache of capacity >= 1 removes the entry at the
\* front of usage from the slab, key_meta and key_map, and every other
\* entry keeps its slot, its metadata and its key_map mapping and is still
\* returned by get.
C4_EvictsOnlyFront ==
    [][(op'.name = "insert" /\ capacity >= 1 /\ SlabLen(slab) = capacity) =>
         LET front == Head(usage)
             others == LiveSlots \ {front}
         IN  /\ op'.evicted = Some(front)
             /\ front \notin SlabKeys(slab')
             /\ front \notin DOMAIN key_meta'
             /\ front \notin MapValues(key_map')
             /\ SlabKeys(slab') = others \cup {op'.index}
             /\ \A h \in others :
                   /\ SlabGet(slab', h) = SlabGet(slab, h)
                   /\ h \in DOMAIN key_meta' /\ key_meta'[h] = key_meta[h]
             /\ \A k \in DOMAIN key_map :
                   (key_map[k] \in others /\ k # op'.key) =>
                       /\ k \in DOMAIN key_map' /\ key_map'[k] = key_map[k]
                       /\ GetResult(k)' = SlabGet(slab, key_map[k])]_vars

\* C5: for a cache of capacity >= 1, insert(k, v) returns k and a get(k)
\* issued right after it returns v.
C5_InsertGetRoundTrip ==
    (op.name = "insert" /\ capacity >= 1 /\ ~panicked) =>
        (ret = op.key /\ GetResult(op.key) = Some(op.value))

\* C6: the slab indices that are values of key_map, the keys of key_meta and
\* the occupied indices of the slab are the same set.
C6_DualMapConsistency ==
    /\ MapValues(key_map) = DOMAIN key_meta
    /\ DOMAIN key_meta = LiveSlots

\* C7: usage holds no slab index twice, and the indices it holds are the
\* occupied indices of the slab.
C7_UsageIsLiveSlots ==
    /\ Cardinality(SeqToSet(usage)) = Len(usage)
    /\ SeqToSet(usage) = LiveSlots
\* a successful get on a cache of two entries
C7_Witness ==
    /\ op.name = "get"
    /\ op.present
    /\ Len(usage) = 2

\* C8: usage_map has an entry for every occupied slab index, equal to the
\* position of that index in usage.
C8_PositionMap ==
    \A h \in LiveSlots :
        /\ h \in DOMAIN usage_map
        /\ usage_map[h] < Len(usage)
        /\ usage[usage_map[h] + 1] = h

\* C9: a get of a key in key_map adds one to the hit counter, leaves the
\* miss counter and returns a value; a get of any other key adds one to the
\* miss counter, leaves the hit counter and returns None; no other call
\* changes either counter.
C9_HitMissAccounting ==
    [][IF op'.name = "get"
       THEN IF op'.key \in DOMAIN key_map
            THEN /\ statistics'.hits = statistics.hits + 1
                 /\ statistics'.misses = statistics.misses
                 /\ ret' # None
            ELSE /\ statistics'.misses = statistics.misses + 1
                 /\ statistics'.hits = statistics.hits
                 /\ ret' = None
       ELSE /\ statistics'.hits = statistics.hits
            /\ statistics'.misses = statistics.misses]_vars
\* gets have hit and missed
C9_Witness ==
    /\ op.name = "get"
    /\ statistics.hits >= 1
    /\ statistics.misses >= 1

\* the slab indices that key_map, key_meta, usage and usage_map refer to
Referenced ==
    MapValues(key_map) \cup DOMAIN key_meta \cup SeqToSet(usage) \cup DOMAIN usage_map

\* C10: the slab index that insert obtains is at that moment referenced by
\* none of key_map, key_meta, usage and usage_map, and in every state those
\* refer to occupied slab indices only.
C10_NoReuseWhileReferenced ==
    /\ [](Referenced \subseteq LiveSlots)
    /\ [][op'.name = "insert" => op'.index \notin Referenced]_vars
\* an insert has obtained a slab index that an evicted entry had held
C10_Witness ==
    /\ op.name = "insert"
    /\ op.index = 0
    /\ Len(slab.entries) > 1
    /\ SlabContains(slab, 0)

\* C11: after flush the slab, key_map, key_meta, usage and usage_map are
\* empty and a get of any key would return None; flush leaves the hit
\* counter, the miss counter and the reported size as they were; a flush of
\* a flushed cache leaves every field as it is.
C11_Flush ==
    /\ [](op.name = "flush" =>
             /\ slab.entries = << >> /\ SlabLen(slab) = 0
             /\ DOMAIN key_map = {}
             /\ DOMAIN key_meta = {}
             /\ usage = << >>
             /\ DOMAIN usage_map = {}
             /\ \A k \in Keys : GetResult(k) = None
             /\ Flushed(Self) = Self)
    /\ [][op'.name = "flush" => statistics' = statistics]_vars
\* a flush of a cache that had held entries and served hits
C11_Witness ==
    /\ op.name = "flush"
    /\ statistics.current_size >= 1
    /\ statistics.hits >= 1

\* the item CacheIterFrequency::next yields for the slab index h
ItemOf(h) == <<key_meta[h].user_key, slab.entries[h + 1].val, key_meta[h]>>

\* C12: iter_frequency(Ascending) yields the item of every occupied slab
\* index exactly once and nothing else, in order of non-decreasing frequency.
C12_AscendingYieldsLiveEntries ==
    (op.name = "iter_frequency" /\ op.order = Ascending) =>
        /\ Len(ret) = Cardinality(LiveSlots)
        /\ Len(op.keys) = Len(ret)
        /\ SeqToSet(op.keys) = LiveSlots
        /\ \A i \in 1..Len(ret) : ret[i] = ItemOf(op.keys[i])
        /\ \A i, j \in 1..Len(ret) :
              i < j => ret[i][3].frequency <= ret[j][3].frequency
\* an ascending iteration over two entries of different frequency
C12_Witness ==
    /\ op.name = "iter_frequency"
    /\ op.order = Ascending
    /\ Len(ret) = 2
    /\ ret[1][3].frequency < ret[2][3].frequency

DistinctFrequencies ==
    \A a, b \in DOMAIN key_meta :
        a # b => key_meta[a].frequency # key_meta[b].frequency

\* C13: when the live entries have pairwise distinct frequencies, what
\* iter_frequency(Descending) yields is the reverse of what
\* iter_frequency(Ascending) yields in the same state, whatever the order in
\* which the hash map yields its keys.
C13_DescendingIsReverse ==
    DistinctFrequencies =>
        \A h1, h2 \in KeyOrders(key_meta) :
            IterItems(FrequencyKeys(h1, Descending)) =
                Reverse(IterItems(FrequencyKeys(h2, Ascending)))
\* a descending iteration over two entries of different frequency
C13_Witness ==
    /\ DistinctFrequencies
    /\ op.name = "iter_frequency"
    /\ op.order = Descending
    /\ Len(ret) = 2
    /\ ret[1][3].frequency > ret[2][3].frequency

\* C14: after every insert the reported size is the number of occupied slab
\* indices left after the eviction, at most the capacity when that is >= 1,
\* and get never changes the reported size.
C14_Occupancy ==
    /\ []((op.name = "insert" /\ ~panicked) =>
             /\ statistics.current_size = SlabLen(slab)
             /\ (capacity >= 1 => statistics.current_size <= capacity))
    /\ [][op'.name = "get" =>
             statistics'.current_size = statistics.current_size]_vars
\* an insert that evicted has reported a full cache of two entries
C14_Witness ==
    /\ op.name = "insert"
    /\ op.evicted # None
    /\ statistics.current_size = 2

\* C15: a get of a key that is not in key_map returns None and changes
\* nothing but the miss counter, which grows by one.
C15_MissChangesOnlyMisses ==
    [][(op'.name = "get" /\ op'.key \notin DOMAIN key_map) =>
         /\ ret' = None
         /\ slab' = slab
         /\ key_map' = key_map
         /\ key_meta' = key_meta
         /\ usage' = usage
         /\ usage_map' = usage_map
         /\ statistics' = [statistics EXCEPT !.misses = @ + 1]]_vars
\* a miss on a cache that holds an entry that has been hit
C15_Witness ==
    /\ op.name = "get"
    /\ ~op.present
    /\ \E h \in DOMAIN key_meta : key_meta[h].frequency >= 1
    /\ statistics.current_size >= 1

\* C16: get_lru changes no field of the cache and no statistic, returns the
\* value at the slab index at the front of usage, and returns None exactly
\* when no slab index is occupied.
C16_GetLruReadOnly ==
    [][op'.name = "get_lru" =>
         /\ UNCHANGED <<slab, key_meta, key_map, usage, usage_map, capacity, statistics>>
         /\ ret' = IF usage = << >> THEN None
                                     ELSE Some(slab.entries[Head(usage) + 1].val)
         /\ (ret' = None <=> LiveSlots = {})]_vars
\* get_lru on two entries of different value
C16_Witness ==
    /\ op.name = "get_lru"
    /\ Len(usage) = 2
    /\ ret # None
    /\ SlabGet(slab, usage[2]) # ret

\* C17: insert creates an entry with frequency 0 and hits 0; a get that
\* finds a key adds one to the frequency and to the hits of the entry at the
\* key's slab index and to no other; no other call changes the frequency or
\* the hits of an entry; so the two are equal for every entry.
C17_EntryCounters ==
    /\ [](\A h \in DOMAIN key_meta : key_meta[h].frequency = key_meta[h].hits)
    /\ [][(op'.name = "insert" =>
              \A h \in DOMAIN key_meta' :
                  IF h = op'.index
                  THEN key_meta'[h].frequency = 0 /\ key_meta'[h].hits = 0
                  ELSE h \in DOMAIN key_meta /\ key_meta'[h] = key_meta[h])
           /\
           (op'.name = "get" =>
              (/\ DOMAIN key_meta' = DOMAIN key_meta
               /\ \A h \in DOMAIN key_meta :
                     IF op'.present /\ h = op'.index
                     THEN /\ key_meta'[h].frequency = key_meta[h].frequency + 1
                          /\ key_meta'[h].hits = key_meta[h].hits + 1
                     ELSE key_meta'[h] = key_meta[h]))
           /\
           (op'.name \in {"get_lru", "iter_frequency"} => key_meta' = key_meta)]_vars
\* a second hit on one entry while another entry has never been hit
C17_Witness ==
    /\ op.name = "get"
    /\ op.present
    /\ key_meta[op.index].frequency = 2
    /\ \E h \in DOMAIN key_meta : key_meta[h].frequency = 0

\* C18: usage_map is empty in every state; no get changes usage; insert
\* appends the new index at the back of usage and an eviction removes the
\* index at its front, so usage lists the live indices in insertion order
\* and evictions are first in, first out.
C18_UsageMapEmptyFifo ==
    /\ [](DOMAIN usage_map = {})
    /\ [][(op'.name \in {"get", "get_lru", "iter_frequency"} => usage' = usage)
           /\
           ((op'.name = "insert" /\ ~panicked') =>
              (/\ op'.evicted = (IF Len(usage) + 1 > capacity
                                  THEN Some(Head(Append(usage, op'.index))) ELSE None)
               /\ usage' = (IF op'.evicted = None THEN Append(usage, op'.index)
                                                  ELSE Tail(Append(usage, op'.index)))))]_vars
\* a get has found the entry at the front of usage and left it there
C18_Witness ==
    /\ op.name = "get"
    /\ op.present
    /\ Len(usage) = 2
    /\ Head(usage) = op.index
    /\ Head(recent) # op.index

\* C19: every key k of key_map is mapped to an occupied slab index whose
\* metadata has user_key k, so a get of k returns a value; key_map has at
\* most as many keys as the slab has occupied indices.
C19_KeyMapPointsToOwnEntry ==
    /\ \A k \in DOMAIN key_map :
          /\ SlabContains(slab, key_map[k])
          /\ key_map[k] \in DOMAIN key_meta
          /\ key_meta[key_map[k]].user_key = k
          /\ GetResult(k) # None
    /\ Cardinality(DOMAIN key_map) <= SlabLen(slab)
\* key_map has fewer keys than the slab has occupied indices
C19_Witness ==
    /\ DOMAIN key_map # {}
    /\ Cardinality(DOMAIN key_map) < SlabLen(slab)

\* C20: an insert of a key that key_map already holds takes a new slab
\* index and maps the key to it; the older index keeps its value, its
\* metadata and its place in usage unless this insert evicts it; get,
\* get_lru and iter_frequency free no slab index; and an eviction removes
\* the user key of the evicted entry from key_map whatever index the key is
\* mapped to.
C20_DuplicateKeyInsert ==
    [][((op'.name = "insert" /\ ~panicked' /\ op'.present) =>
          LET old == key_map[op'.key]
          IN  /\ op'.index # old
              /\ op'.evicted # Some(old) =>
                    /\ SlabGet(slab', old) = SlabGet(slab, old)
                    /\ old \in DOMAIN key_meta' /\ key_meta'[old] = key_meta[old]
                    /\ old \in SeqToSet(usage')
                    /\ op'.index \in SlabKeys(slab')
                    /\ (op'.evicted = None \/ key_meta[op'.evicted[1]].user_key # op'.key) =>
                          (op'.key \in DOMAIN key_map' /\ key_map'[op'.key] = op'.index))
       /\
       ((op'.name = "insert" /\ ~panicked' /\ op'.evicted # None) =>
          LET e == op'.evicted[1]
              user_key == IF e = op'.index THEN op'.key ELSE key_meta[e].user_key
          IN  user_key \notin DOMAIN key_map')
       /\
       (op'.name \in {"get", "get_lru", "iter_frequency"} =>
          SlabKeys(slab') = SlabKeys(slab))]_vars
\* an eviction of the older entry of a key has left the newer entry of that
\* key occupied and unmapped
C20_Witness ==
    /\ op.name = "insert"
    /\ op.evicted # None
    /\ \E h \in LiveSlots :
          /\ h # op.index
          /\ key_meta[h].user_key \notin DOMAIN key_map

Spec == Init /\ [][Next]_vars
====
